---------------------------- MODULE Spec2Model ----------------------------
(***************************************************************************)
(* A model of clean_transactions.py: the amount normaliser                *)
(* normalize_amount and the per-line pipeline clean_transactions (archive *)
(* side-write, event filter, field extraction, validation, CSV output).   *)
(*                                                                         *)
(* Python values are tagged records [t |-> tag, v |-> payload]:           *)
(*   none, bool, int, bigint (an int beyond the float range), float (an   *)
(*   exact decimal [m, e] standing for m / 10^e), str (a sequence of      *)
(*   one-character strings), list (a sequence of values), dict (a         *)
(*   function from key names to values).                                  *)
(* A raised, uncaught exception is the value Raised.                      *)
(***************************************************************************)
EXTENDS Integers, Sequences, FiniteSets, TLC

VARIABLES
    val,           \* normalize_amount: the argument of the call
    amount,        \* normalize_amount: what the call gave (NotCalled before)
    input,         \* the lines of input_file, in order
    file_exists,   \* os.path.exists(input_file)
    pc,            \* position in clean_transactions
    pos,           \* number of lines the for loop has consumed
    has_mongo,     \* the archive capability flag
    cleaned_data,  \* the result sequence
    archive,       \* the documents handed to archive_col.insert_one, in order
    outcome,       \* what each consumed line led to, in order
    output,        \* the rows of output_csv (NoOutput while not written)
    twin           \* a second run of clean_transactions on the same input

vars == <<val, amount, input, file_exists, pc, pos, has_mongo, cleaned_data,
          archive, outcome, output, twin>>

----------------------------------------------------------------------------
(* Bounds of the model. *)

MaxStrLen == 3

MaxCents == 12

MaxLines == 2

----------------------------------------------------------------------------
(* Python values. *)

PyNone == [t |-> "none", v |-> 0]

PyBool(b) == [t |-> "bool", v |-> b]

PyInt(n) == [t |-> "int", v |-> n]

\* An int whose magnitude is beyond the range of a float (such as 10**400).
PyBigInt == [t |-> "bigint", v |-> 1]

\* The float m / 10^e.
PyFloat(m, e) == [t |-> "float", v |-> [m |-> m, e |-> e]]

PyStr(s) == [t |-> "str", v |-> s]

PyList(l) == [t |-> "list", v |-> l]

PyDict(d) == [t |-> "dict", v |-> d]

EmptyDict == PyDict(<<>>)

\* An exception that no handler caught.
Raised == [t |-> "raise", v |-> 0]

IsRaised(x) == x.t = "raise"

Digits == {"0", "1", "2", "3", "4", "5", "6", "7", "8", "9"}

DigitVal(c) ==
    CASE c = "0" -> 0 [] c = "1" -> 1 [] c = "2" -> 2 [] c = "3" -> 3
      [] c = "4" -> 4 [] c = "5" -> 5 [] c = "6" -> 6 [] c = "7" -> 7
      [] c = "8" -> 8 [] c = "9" -> 9

\* A float is kept in lowest terms: 10.00 and 10.0 are the same float.
RECURSIVE Reduce(_, _)
Reduce(m, e) ==
    IF e > 0 /\ m % 10 = 0 THEN Reduce(m \div 10, e - 1) ELSE [m |-> m, e |-> e]

MkFloat(m, e) == [t |-> "float", v |-> Reduce(m, e)]

----------------------------------------------------------------------------
(* normalize_amount *)

\* val / 100.0 for an int, a bool (an int in Python) or a float.
DivBy100(x) ==
    CASE x.t = "int"    -> MkFloat(x.v, 2)
      [] x.t = "bool"   -> MkFloat(IF x.v THEN 1 ELSE 0, 2)
      [] x.t = "float"  -> MkFloat(x.v.m, x.v.e + 2)
      [] x.t = "bigint" -> Raised      \* OverflowError: int too large

IsNumeric(x) == x.t \in {"int", "bigint", "bool", "float"}

\* A slip in the pattern, r'[^\d.,]': the thousands separators stay.
RECURSIVE ReSubKeepsComma(_)
ReSubKeepsComma(s) ==
    IF s = <<>> THEN <<>>
    ELSE IF Head(s) \in Digits \cup {".", ","}
    THEN <<Head(s)>> \o ReSubKeepsComma(Tail(s))
    ELSE ReSubKeepsComma(Tail(s))

\* re.sub(r'[^\d.]', '', s)
RECURSIVE ReSub(_)
ReSub(s) ==
    IF s = <<>> THEN <<>>
    ELSE IF Head(s) \in Digits \cup {"."} THEN <<Head(s)>> \o ReSub(Tail(s))
    ELSE ReSub(Tail(s))

\* The index of the first "." of s, or 0.
RECURSIVE IndexOfDot(_, _)
IndexOfDot(s, i) ==
    IF i > Len(s) THEN 0 ELSE IF s[i] = "." THEN i ELSE IndexOfDot(s, i + 1)

\* int(s) for a sequence of digits (0 for none).
RECURSIVE DigitsValue(_)
DigitsValue(s) ==
    IF s = <<>> THEN 0
    ELSE 10 * DigitsValue(SubSeq(s, 1, Len(s) - 1)) + DigitVal(s[Len(s)])

AllDigits(s) == \A i \in 1..Len(s) : s[i] \in Digits

\* float(s) for s made of digits and points: digits [ "." digits ] with at
\* least one digit somewhere; anything else is a ValueError.
ValueError == [t |-> "ValueError", v |-> 0]

PyFloatOfStr(s) ==
    LET d    == IndexOfDot(s, 1)
        ip   == IF d = 0 THEN s ELSE SubSeq(s, 1, d - 1)
        fp   == IF d = 0 THEN <<>> ELSE SubSeq(s, d + 1, Len(s))
    IN  IF AllDigits(ip) /\ AllDigits(fp) /\ Len(ip) + Len(fp) > 0
        THEN MkFloat(DigitsValue(ip \o fp), Len(fp))
        ELSE ValueError

normalize_amount(x) ==
    IF x.t = "none" \/ (x.t = "str" /\ x.v = <<>>) THEN PyNone
    ELSE IF IsNumeric(x) THEN DivBy100(x)
    ELSE IF x.t = "str" THEN
        LET clean_val == ReSub(x.v)
        IN  IF clean_val = <<>> THEN PyNone
            ELSE LET f == PyFloatOfStr(clean_val)
                 IN  IF f = ValueError THEN PyNone ELSE f
    ELSE PyNone


----------------------------------------------------------------------------
(* The arguments normalize_amount is called with. *)

BoundedSeq(S, n) == UNION {[1..k -> S] : k \in 0..n}

AmountChars == {"0", "1", "5", ".", "$", ",", "-"}

\* "1,000.00", "USD 10.00", "$10.00", "10.00", "$", "1.2.3"
AmountExamples ==
    { <<"1", ",", "0", "0", "0", ".", "0", "0">>,
      <<"U", "S", "D", " ", "1", "0", ".", "0", "0">>,
      <<"$", "1", "0", ".", "0", "0">>,
      <<"1", "0", ".", "0", "0">>,
      <<"$">>,
      <<"1", ".", "2", ".", "3">> }

StrAmounts == {PyStr(s) : s \in BoundedSeq(AmountChars, MaxStrLen) \cup AmountExamples}

IntAmounts == {PyInt(n) : n \in (-MaxCents..MaxCents) \cup {-500, 1000}} \cup {PyBigInt}

\* Floats with one decimal place, such as 0.5 and -1.2.
FloatAmounts == {PyFloat(m, 1) : m \in {k \in -MaxCents..MaxCents : k % 10 /= 0}}

OtherAmounts ==
    { PyNone, PyBool(TRUE), PyBool(FALSE), PyList(<<>>), PyList(<<PyInt(5)>>),
      EmptyDict, PyDict([usd |-> PyInt(5)]) }

AmountArgs == StrAmounts \cup IntAmounts \cup FloatAmounts \cup OtherAmounts

NotCalled == [t |-> "notcalled", v |-> 0]

----------------------------------------------------------------------------
(* Python operations clean_transactions uses. *)

\* The characters of the string literals of the code.
Chars(lit) ==
    CASE lit = "test"      -> <<"t", "e", "s", "t">>
      [] lit = "noise"     -> <<"n", "o", "i", "s", "e">>
      [] lit = "heartbeat" -> <<"h", "e", "a", "r", "t", "b", "e", "a", "t">>

\* bool(x)
Truthy(x) ==
    CASE x.t = "none"   -> FALSE
      [] x.t = "bool"   -> x.v
      [] x.t = "int"    -> x.v /= 0
      [] x.t = "bigint" -> TRUE
      [] x.t = "float"  -> x.v.m /= 0
      [] x.t = "str"    -> x.v /= <<>>
      [] x.t = "list"   -> x.v /= <<>>
      [] x.t = "dict"   -> DOMAIN x.v /= {}

\* d.get(k, default): an AttributeError when d is not a dict.
Get(d, k, default) ==
    IF d.t /= "dict" THEN Raised
    ELSE IF k \in DOMAIN d.v THEN d.v[k] ELSE default

\* x or y
OrElse(x, y) == IF IsRaised(x) THEN Raised ELSE IF Truthy(x) THEN x ELSE y

\* s occurs in t as a run of consecutive characters.
IsSubstring(s, t) ==
    \E i \in 0..(Len(t) - Len(s)) : SubSeq(t, i + 1, i + Len(s)) = s

\* lit in c: membership in a list, substring of a str, key of a dict, and a
\* TypeError for a value that is not iterable.
In(lit, c) ==
    CASE c.t = "list" -> PyBool(\E i \in 1..Len(c.v) :
                                   c.v[i].t = "str" /\ c.v[i].v = Chars(lit))
      [] c.t = "str"  -> PyBool(IsSubstring(Chars(lit), c.v))
      [] c.t = "dict" -> PyBool(lit \in DOMAIN c.v)
      [] OTHER        -> Raised

\* x == lit
EqLit(x, lit) == x.t = "str" /\ x.v = Chars(lit)

----------------------------------------------------------------------------
(* One pass of the loop body of clean_transactions. *)

\* Step 3: 'test' in flags or event_type == 'heartbeat' or 'noise' in flags
Excluded(flags, event_type) ==
    LET t == In("test", flags)
    IN  IF IsRaised(t) THEN Raised
        ELSE IF t.v THEN PyBool(TRUE)
        ELSE IF EqLit(event_type, "heartbeat") THEN PyBool(TRUE)
        ELSE In("noise", flags)

\* A slip in Step 5: or in place of and.
ValidOr(amount_usd, payment_id) == amount_usd.t /= "none" \/ Truthy(payment_id)

\* Step 5: amount_usd is not None and payment_id
Valid(amount_usd, payment_id) == amount_usd.t /= "none" /\ Truthy(payment_id)

Result(o, r) == [outcome |-> o, row |-> r]

NoRow == <<>>

\* Steps 2 to 5 for a parsed record: what becomes of it, and the row it adds.
ProcessRecord(raw_record) ==
    LET payload    == Get(raw_record, "payload", EmptyDict)
        entity     == Get(raw_record, "entity", EmptyDict)
        event_info == Get(raw_record, "event", EmptyDict)
        event_type == Get(event_info, "type", PyNone)
        flags      == OrElse(Get(payload, "flags", PyNone), PyList(<<>>))
        excluded   == Excluded(flags, event_type)
        amount_usd == normalize_amount(Get(payload, "Amount", PyNone))
        payment_id == Get(Get(entity, "payment", EmptyDict), "id", PyNone)
        order_id   == Get(Get(entity, "order", EmptyDict), "id", PyNone)
    IN  IF raw_record.t /= "dict" THEN Result("raised", NoRow)
        ELSE IF IsRaised(event_type) \/ IsRaised(flags) THEN Result("raised", NoRow)
        ELSE IF IsRaised(excluded) THEN Result("raised", NoRow)
        ELSE IF excluded.v THEN Result("excluded", NoRow)
        ELSE IF IsRaised(amount_usd) THEN Result("raised", NoRow)
        ELSE IF IsRaised(payment_id) THEN Result("raised", NoRow)
        ELSE IF ~Valid(amount_usd, payment_id) THEN Result("dropped", NoRow)
        ELSE IF IsRaised(order_id) THEN Result("raised", NoRow)
        ELSE Result("appended",
                    [payment_id |-> payment_id,
                     order_id   |-> order_id,
                     amount_usd |-> amount_usd,
                     status     |-> Get(payload, "status", PyNone),
                     ts         |-> Get(event_info, "ts", PyNone)])

\* The state of one run of clean_transactions.
Run(p, n, m, c, a, o, out) ==
    [pc |-> p, pos |-> n, has_mongo |-> m, cleaned_data |-> c, archive |-> a,
     outcome |-> o, output |-> out]

\* A slip in Step 1: the except branch leaves has_mongo set, so that every
\* later line tries the sink again.
ArchiveStepRetry(run, raw_record, insert_ok) ==
    IF ~run.has_mongo THEN run
    ELSE IF raw_record.t \notin {"dict", "list"} THEN run
    ELSE [run EXCEPT !.archive = Append(@, [doc |-> raw_record,
                                            ok |-> raw_record.t = "dict" /\ insert_ok])]

\* Step 1: archive_col.insert_one(raw_record.copy()) under has_mongo.  A value
\* without a copy method never reaches insert_one; insert_one takes mappings
\* only, and insert_ok is whether the sink accepts the write.
ArchiveStep(run, raw_record, insert_ok) ==
    IF ~run.has_mongo THEN run
    ELSE IF raw_record.t \notin {"dict", "list"}
    THEN [run EXCEPT !.has_mongo = FALSE]
    ELSE LET ok == raw_record.t = "dict" /\ insert_ok
         IN  [run EXCEPT !.has_mongo = ok,
                         !.archive = Append(@, [doc |-> raw_record, ok |-> ok])]

\* The rest of the pass: the record is filtered, extracted, validated and
\* accumulated; an uncaught exception ends the run.
Accumulate(run, res) ==
    [run EXCEPT !.pos = @ + 1,
                !.outcome = Append(@, res.outcome),
                !.cleaned_data = IF res.outcome = "appended"
                                 THEN Append(@, res.row) ELSE @,
                !.pc = IF res.outcome = "raised" THEN "raised" ELSE @]

\* A slip in Step 1: the except branch ends with continue, so that the line
\* whose write failed is skipped.
LoopBodySkipOnArchiveFailure(run, line, insert_ok) ==
    IF line.kind = "blank" THEN Accumulate(run, Result("blank", NoRow))
    ELSE IF line.kind = "malformed" THEN Accumulate(run, Result("malformed", NoRow))
    ELSE LET archived == ArchiveStep(run, line.val, insert_ok)
         IN  IF run.has_mongo /\ ~archived.has_mongo
             THEN Accumulate(archived, Result("skipped", NoRow))
             ELSE Accumulate(archived, ProcessRecord(line.val))

LoopBody(run, line, insert_ok) ==
    IF line.kind = "blank" THEN Accumulate(run, Result("blank", NoRow))
    ELSE IF line.kind = "malformed" THEN Accumulate(run, Result("malformed", NoRow))
    ELSE Accumulate(ArchiveStep(run, line.val, insert_ok), ProcessRecord(line.val))

----------------------------------------------------------------------------
(* Startup and Step 6. *)

NoOutput == [header |-> <<>>, rows |-> <<>>]

\* Lines 36 to 51: the reachability probe, the empty result sequence, and the
\* check that the input file exists.
StartRun(ping_ok, exists) ==
    Run(IF exists THEN "loop" ELSE "not_found", 0, ping_ok, <<>>, <<>>, <<>>, NoOutput)

keys == <<"payment_id", "order_id", "amount_usd", "status", "ts">>

\* What csv.DictWriter writes for a value: nothing for None, the string
\* itself, and str(x) for any other value.
CsvField(x) ==
    IF x.t = "none" THEN [t |-> "text", v |-> <<>>]
    ELSE IF x.t = "str" THEN [t |-> "text", v |-> x.v]
    ELSE [t |-> "str()", v |-> x]

CsvRow(row) == [i \in 1..Len(keys) |-> CsvField(row[keys[i]])]

\* A slip in Step 6: the file is written, header and all, without looking at
\* cleaned_data.
EmitRunAlways(run) ==
    [run EXCEPT !.pc = "saved",
                !.output = [header |-> keys,
                            rows |-> [i \in 1..Len(run.cleaned_data) |->
                                         CsvRow(run.cleaned_data[i])]]]

\* Step 6: the CSV is written when cleaned_data is not empty.
EmitRun(run) ==
    IF run.cleaned_data /= <<>>
    THEN [run EXCEPT !.pc = "saved",
                     !.output = [header |-> keys,
                                 rows |-> [i \in 1..Len(run.cleaned_data) |->
                                              CsvRow(run.cleaned_data[i])]]]
    ELSE [run EXCEPT !.pc = "no_valid"]

----------------------------------------------------------------------------
(* The input lines. *)

\* A key that the record does not have.
Absent == [t |-> "absent", v |-> 0]

\* The dict with the fields of f that are not Absent.
Dict(f) == PyDict([k \in {j \in DOMAIN f : f[j].t /= "absent"} |-> f[k]])

Str2(a, b) == PyStr(<<a, b>>)

AmountVals ==
    { Absent, PyNone, PyInt(1000), PyInt(-500), PyInt(0), PyBigInt,
      PyStr(<<"$", "1", "0", ".", "0", "0">>), PyStr(<<"$">>) }

PaymentNodes ==
    { Absent, PyNone, Dict([id |-> PyNone]), Dict([id |-> PyStr(<<>>)]),
      Dict([id |-> Str2("p", "1")]) }

OrderNodes ==
    { Absent, PyNone, Dict([id |-> PyNone]), Dict([id |-> Str2("o", "1")]) }

FlagsVals ==
    { Absent, PyNone,
      PyList(<<PyStr(Chars("test"))>>),
      PyList(<<Str2("r", "e"), PyStr(Chars("noise"))>>),
      PyList(<<PyStr(<<"T", "e", "s", "t">>)>>),
      PyList(<<PyStr(<<"t", "e", "s", "t", "s">>), PyStr(<<"n", "o", "i", "s", "e", "2">>)>>),
      PyStr(<<"c", "o", "n", "t", "e", "s", "t">>),
      PyInt(5) }

EventNodes ==
    { Absent, PyNone,
      Dict([type |-> PyStr(Chars("heartbeat")), ts |-> Str2("t", "1")]),
      Dict([type |-> Str2("o", "k"), ts |-> Str2("t", "2")]),
      Dict([type |-> PyStr(<<"H", "e", "a", "r", "t", "b", "e", "a", "t">>), ts |-> Absent]) }

StatusVals == {Absent, Str2("O", "K")}

Record(event, entity, payload) ==
    Dict([event |-> event, entity |-> entity, payload |-> payload])

\* Records with every combination of the fields the pipeline reads.
Records ==
    { Record(ev, Dict([payment |-> p, order |-> o]),
             Dict([Amount |-> a, status |-> s, flags |-> f])) :
        ev \in EventNodes, p \in PaymentNodes, o \in OrderNodes,
        a \in AmountVals, s \in StatusVals, f \in FlagsVals }

GoodEvent == Dict([type |-> Str2("o", "k"), ts |-> Str2("t", "2")])

GoodEntity(pid) == Dict([payment |-> Dict([id |-> pid]), order |-> Absent])

GoodPayload(a) == Dict([Amount |-> a, status |-> Str2("O", "K"), flags |-> PyNone])

\* Records with a whole sub-section absent or null.
SectionRecords ==
    { Record(ev, en, pl) :
        ev \in {Absent, PyNone, GoodEvent},
        en \in {Absent, PyNone, GoodEntity(Str2("p", "1"))},
        pl \in {Absent, PyNone, GoodPayload(PyInt(1000))} }

\* Well-formed JSON that is not an object.
NonObjects == {PyInt(5), PyNone, PyStr(<<"x">>), PyList(<<>>), PyList(<<PyInt(5)>>)}

Blank == [kind |-> "blank", val |-> PyNone]

Malformed == [kind |-> "malformed", val |-> PyNone]

Json(v) == [kind |-> "json", val |-> v]

AllLines ==
    {Blank, Malformed} \cup {Json(v) : v \in Records \cup SectionRecords \cup NonObjects}

\* The lines that longer inputs are made of.
CoreLines ==
    { Blank, Malformed, Json(PyInt(5)),
      Json(Record(GoodEvent, GoodEntity(Str2("p", "1")),
                  GoodPayload(PyStr(<<"$", "1", "0", ".", "0", "0">>)))),
      Json(Record(GoodEvent, GoodEntity(Str2("p", "2")), GoodPayload(PyInt(-500)))),
      Json(Record(GoodEvent, GoodEntity(PyNone), GoodPayload(PyInt(1000)))),
      Json(Record(GoodEvent, GoodEntity(Str2("p", "3")),
                  Dict([Amount |-> PyInt(1000), status |-> Absent,
                        flags |-> PyList(<<PyStr(Chars("test"))>>)]))),
      Json(Record(GoodEvent, PyNone, GoodPayload(PyInt(1000)))) }

Inputs == {<<l>> : l \in AllLines} \cup BoundedSeq(CoreLines, MaxLines)

----------------------------------------------------------------------------
(* clean_transactions as a state machine: one run. *)

ThisRun == Run(pc, pos, has_mongo, cleaned_data, archive, outcome, output)

SetRun(r) ==
    /\ pc' = r.pc
    /\ pos' = r.pos
    /\ has_mongo' = r.has_mongo
    /\ cleaned_data' = r.cleaned_data
    /\ archive' = r.archive
    /\ outcome' = r.outcome
    /\ output' = r.output

Idle == Run("idle", 0, FALSE, <<>>, <<>>, <<>>, NoOutput)

Init ==
    /\ val = PyNone
    /\ amount = NotCalled
    /\ input \in Inputs
    /\ file_exists \in IF input = <<>> THEN BOOLEAN ELSE {TRUE}
    /\ pc = "start"
    /\ pos = 0
    /\ has_mongo = FALSE
    /\ cleaned_data = <<>>
    /\ archive = <<>>
    /\ outcome = <<>>
    /\ output = NoOutput
    /\ twin = Idle

Startup ==
    /\ pc = "start"
    /\ \E ping_ok \in BOOLEAN : SetRun(StartRun(ping_ok, file_exists))
    /\ UNCHANGED <<val, amount, input, file_exists, twin>>

ProcessLine ==
    /\ pc = "loop"
    /\ pos < Len(input)
    /\ \E insert_ok \in BOOLEAN : SetRun(LoopBody(ThisRun, input[pos + 1], insert_ok))
    /\ UNCHANGED <<val, amount, input, file_exists, twin>>

EndOfStream ==
    /\ pc = "loop"
    /\ pos = Len(input)
    /\ SetRun(EmitRun(ThisRun))
    /\ UNCHANGED <<val, amount, input, file_exists, twin>>

Next == Startup \/ ProcessLine \/ EndOfStream

Spec == Init /\ [][Next]_vars

----------------------------------------------------------------------------
(* Two runs of clean_transactions on the same input, each with a sink of its
   own: the probes and the writes of the two runs succeed or fail
   independently. *)

TwinInit ==
    /\ val = PyNone
    /\ amount = NotCalled
    /\ input \in BoundedSeq(CoreLines, MaxLines)
    /\ file_exists = TRUE
    /\ pc = "start"
    /\ pos = 0
    /\ has_mongo = FALSE
    /\ cleaned_data = <<>>
    /\ archive = <<>>
    /\ outcome = <<>>
    /\ output = NoOutput
    /\ twin = Run("start", 0, FALSE, <<>>, <<>>, <<>>, NoOutput)

TwinStartup ==
    /\ pc = "start"
    /\ \E ping_ok \in BOOLEAN : SetRun(StartRun(ping_ok, file_exists))
    /\ \E ping_ok \in BOOLEAN : twin' = StartRun(ping_ok, file_exists)
    /\ UNCHANGED <<val, amount, input, file_exists>>

TwinProcessLine ==
    /\ pc = "loop"
    /\ pos < Len(input)
    /\ \E insert_ok \in BOOLEAN : SetRun(LoopBody(ThisRun, input[pos + 1], insert_ok))
    /\ \E insert_ok \in BOOLEAN :
          twin' = IF twin.pc = "loop" /\ twin.pos < Len(input)
                  THEN LoopBody(twin, input[twin.pos + 1], insert_ok)
                  ELSE twin
    /\ UNCHANGED <<val, amount, input, file_exists>>

TwinEndOfStream ==
    /\ pc = "loop"
    /\ pos = Len(input)
    /\ SetRun(EmitRun(ThisRun))
    /\ twin' = IF twin.pc = "loop" /\ twin.pos = Len(input) THEN EmitRun(twin) ELSE twin
    /\ UNCHANGED <<val, amount, input, file_exists>>

TwinNext == TwinStartup \/ TwinProcessLine \/ TwinEndOfStream

TwinSpec == TwinInit /\ [][TwinNext]_vars

----------------------------------------------------------------------------
(* normalize_amount applied to one argument. *)

NormInit ==
    /\ val \in AmountArgs
    /\ amount = NotCalled
    /\ input = <<>>
    /\ file_exists = TRUE
    /\ pc = "idle"
    /\ pos = 0
    /\ has_mongo = FALSE
    /\ cleaned_data = <<>>
    /\ archive = <<>>
    /\ outcome = <<>>
    /\ output = NoOutput
    /\ twin = Idle

NormalizeAmount ==
    /\ amount = NotCalled
    /\ amount' = normalize_amount(val)
    /\ UNCHANGED <<val, input, file_exists, pc, pos, has_mongo, cleaned_data,
                   archive, outcome, output, twin>>

NormNext == NormalizeAmount

NormSpec == NormInit /\ [][NormNext]_vars

----------------------------------------------------------------------------
(* What the claims say of a record, read off the record itself: a missing or
   null node on the way to a field makes the field absent. *)

ClaimNav(d, k) == IF d.t = "dict" /\ k \in DOMAIN d.v THEN d.v[k] ELSE PyNone

ClaimField(rec, section, k) == ClaimNav(ClaimNav(rec, section), k)

ClaimNode(rec, node, k) == ClaimNav(ClaimNav(ClaimNav(rec, "entity"), node), k)

\* The flag set: the elements of a flag list, and no flags for anything else.
ClaimFlagSet(rec) ==
    LET f == ClaimField(rec, "payload", "flags")
    IN  IF f.t = "list" THEN {f.v[i] : i \in 1..Len(f.v)} ELSE {}

ClaimExcluded(rec) ==
    \/ PyStr(<<"t", "e", "s", "t">>) \in ClaimFlagSet(rec)
    \/ PyStr(<<"n", "o", "i", "s", "e">>) \in ClaimFlagSet(rec)
    \/ ClaimField(rec, "event", "type") = PyStr(<<"h", "e", "a", "r", "t", "b", "e", "a", "t">>)

ClaimPresent(x) == x.t /= "none" /\ x /= PyStr(<<>>)

ClaimGrade(rec) ==
    /\ normalize_amount(ClaimField(rec, "payload", "Amount")).t = "float"
    /\ ClaimPresent(ClaimNode(rec, "payment", "id"))

\* The lines consumed so far that parsed as an object.
ClaimRecordsSeen == {i \in 1..pos : input[i].kind = "json" /\ input[i].val.t = "dict"}

\* The code's filter ran on the record and let it pass.
ClaimPassedFilter(rec) ==
    LET flags == OrElse(Get(Get(rec, "payload", EmptyDict), "flags", PyNone), PyList(<<>>))
        ex    == Excluded(flags, Get(Get(rec, "event", EmptyDict), "type", PyNone))
    IN  ex.t = "bool" /\ ~ex.v

\* The place in cleaned_data of the record that line i added.
ClaimRowIndex(i) == Cardinality({j \in 1..i : outcome[j] = "appended"})

----------------------------------------------------------------------------
(* C1: in every state of a run, every record of cleaned_data has a payment_id
   that is present and non-empty and an amount_usd that is a normalized
   value, not None. *)
C1_ResultRecordsComplete ==
    \A i \in 1..Len(cleaned_data) :
        /\ ClaimPresent(cleaned_data[i].payment_id)
        /\ cleaned_data[i].amount_usd.t = "float"

\* A record was accepted after another one was dropped by validation.
C1_Witness ==
    /\ pos = 2
    /\ outcome = <<"dropped", "appended">>
    /\ Len(cleaned_data) = 1

(* C2: a parsed record that passes the filter is appended if and only if its
   normalized amount is a value and entity.payment.id is present and
   non-empty, whatever its order id, status and timestamp are; an absent
   order id, status or timestamp is null in the appended record. *)
C2_AppendedIffAmountAndPaymentId ==
    \A i \in ClaimRecordsSeen :
        LET rec == input[i].val
        IN  ClaimPassedFilter(rec) =>
                /\ outcome[i] = "appended" <=> ClaimGrade(rec)
                /\ outcome[i] = "appended" =>
                      LET row == cleaned_data[ClaimRowIndex(i)]
                      IN  /\ row.order_id = ClaimNode(rec, "order", "id")
                          /\ row.status = ClaimField(rec, "payload", "status")
                          /\ row.ts = ClaimField(rec, "event", "ts")

(* C3: a parsed record is excluded by the filter if and only if its flag set
   holds the exact token "test" or "noise" or its event type is exactly
   "heartbeat"; absent, null or malformed flags are no flags; an excluded
   record adds no row. *)
C3_ExcludedIffExactToken ==
    \A i \in ClaimRecordsSeen :
        outcome[i] \in {"excluded", "dropped", "appended"} =>
            (outcome[i] = "excluded" <=> ClaimExcluded(input[i].val))

(* C4: no line aborts the run: whatever the lines are, the run never ends in
   an uncaught exception, and a line adds at most one record. *)
C4_NoLineAborts == pc /= "raised" /\ Len(cleaned_data) <= pos

(* C5: the archive flag is sticky: once the run has started, a disabled flag
   stays disabled and no write is attempted while it is disabled; a failed
   write is the last write of the run and disables the flag; and the line
   whose write failed is processed like any other line. *)
C5_ArchiveFlagSticky ==
    [][ /\ (pc /= "start" /\ ~has_mongo) => (~has_mongo' /\ archive' = archive)
        /\ \A i \in 1..Len(archive') :
              ~archive'[i].ok => (i = Len(archive') /\ ~has_mongo')
        /\ (Len(archive') > Len(archive) /\ ~archive'[Len(archive')].ok) =>
              /\ pos' = pos + 1
              /\ outcome'[pos'] = ProcessRecord(input[pos'].val).outcome
      ]_vars

\* The first line's write failed, and the second line was accepted without
\* another write.
C5_Witness ==
    /\ pos = 2
    /\ Len(archive) = 1
    /\ ~archive[1].ok
    /\ ~has_mongo
    /\ outcome[2] = "appended"

(* C6: two runs on the same input, whatever their sinks do, have the same
   result sequence, the same outcome for every line, the same end and the
   same output. *)
C6_OutputIndependentOfSink ==
    /\ cleaned_data = twin.cleaned_data
    /\ outcome = twin.outcome
    /\ pc = twin.pc
    /\ output = twin.output

\* Both runs wrote their output; one archived every record and the other
\* lost its sink on the way.
C6_Witness ==
    /\ pc = "saved"
    /\ twin.pc = "saved"
    /\ has_mongo
    /\ ~twin.has_mongo
    /\ Len(archive) = 2
    /\ Len(twin.archive) = 1

\* 10^k, to compare decimals without dividing.
RECURSIVE Pow10(_)
Pow10(k) == IF k = 0 THEN 1 ELSE 10 * Pow10(k - 1)

(* C7: for every numeric amount n, int or float, normalize_amount(n) is
   n / 100, sign and zero included. *)
C7_NumericIsCentsOver100 ==
    (amount /= NotCalled /\ val.t \in {"int", "bigint", "float"}) =>
        /\ amount.t = "float"
        /\ val.t = "int" => amount.v.m * 100 = val.v * Pow10(amount.v.e)
        /\ val.t = "float" =>
              amount.v.m * 100 * Pow10(val.v.e) = val.v.m * Pow10(amount.v.e)

ClaimIsDigit(c) == c \in {"0", "1", "2", "3", "4", "5", "6", "7", "8", "9"}

ClaimIsDigitOrDot(c) == ClaimIsDigit(c) \/ c = "."

ClaimIsDot(c) == c = "."

\* The number of characters of s after its last ".".
RECURSIVE ClaimAfterDot(_)
ClaimAfterDot(s) ==
    IF s = <<>> \/ s[Len(s)] = "." THEN 0
    ELSE 1 + ClaimAfterDot(SubSeq(s, 1, Len(s) - 1))

(* C8: for every string amount s, normalize_amount(s) is the decimal value of
   s with every character that is not a digit or a point deleted; when
   nothing remains, or what remains is not a number (no digit, or more than
   one point), the result is None. *)
C8_StringStripAndParse ==
    (amount /= NotCalled /\ val.t = "str") =>
        LET rem    == SelectSeq(val.v, ClaimIsDigitOrDot)
            digits == SelectSeq(rem, ClaimIsDigit)
            dots   == Len(SelectSeq(rem, ClaimIsDot))
            frac   == IF dots = 0 THEN 0 ELSE ClaimAfterDot(rem)
        IN  IF digits = <<>> \/ dots > 1
            THEN amount = PyNone
            ELSE /\ amount.t = "float"
                 /\ amount.v.m * Pow10(frac) = DigitsValue(digits) * Pow10(amount.v.e)

\* "1,000.00" gave 1000.00.
C8_Witness ==
    /\ val = PyStr(<<"1", ",", "0", "0", "0", ".", "0", "0">>)
    /\ amount = PyFloat(1000, 0)

(* C9: normalize_amount never raises; None and "" give None; a bool, a list
   or a mapping gives None. *)
C9_TotalNeverRaises ==
    amount /= NotCalled =>
        /\ amount.t \in {"none", "float"}
        /\ (val.t = "none" \/ val = PyStr(<<>>)) => amount = PyNone
        /\ val.t \in {"bool", "list", "dict"} => amount = PyNone

\* What the claim says the output holds for the k-th accepted line.
ClaimAccepted(i) == outcome[i] = "appended"

ClaimText(x) == IF x.t = "none" THEN <<>> ELSE x.v

ClaimRowOf(row, rec) ==
    /\ row[1] = [t |-> "text", v |-> ClaimText(ClaimNode(rec, "payment", "id"))]
    /\ row[2] = [t |-> "text", v |-> ClaimText(ClaimNode(rec, "order", "id"))]
    /\ row[3] = [t |-> "str()", v |-> normalize_amount(ClaimField(rec, "payload", "Amount"))]
    /\ row[4] = [t |-> "text", v |-> ClaimText(ClaimField(rec, "payload", "status"))]
    /\ row[5] = [t |-> "text", v |-> ClaimText(ClaimField(rec, "event", "ts"))]

(* C10: at end of stream the output is written if and only if cleaned_data
   is not empty; it holds the header payment_id, order_id, amount_usd, status,
   ts and one row per accepted record, in the order of the input lines; with
   nothing accepted no output is written and the run ends in the 'no valid
   transactions' state. *)
C10_OutputAtEndOfStream ==
    LET accepted == SelectSeq([i \in 1..pos |-> i], ClaimAccepted)
    IN  /\ pc \notin {"saved", "no_valid"} => output = NoOutput
        /\ pc \in {"saved", "no_valid"} =>
              /\ pos = Len(input)
              /\ output /= NoOutput <=> cleaned_data /= <<>>
              /\ pc = "no_valid" <=> cleaned_data = <<>>
              /\ cleaned_data = <<>> <=> accepted = <<>>
              /\ output /= NoOutput =>
                    /\ output.header =
                          <<"payment_id", "order_id", "amount_usd", "status", "ts">>
                    /\ Len(output.rows) = Len(accepted)
                    /\ \A k \in 1..Len(accepted) :
                          ClaimRowOf(output.rows[k], input[accepted[k]].val)

\* Two accepted lines with different payment ids were written, in order.
C10_Witness ==
    /\ pc = "saved"
    /\ Len(output.rows) = 2
    /\ output.rows[1][1] = [t |-> "text", v |-> <<"p", "2">>]
    /\ output.rows[2][1] = [t |-> "text", v |-> <<"p", "1">>]


(* C11: while has_mongo is set, every line that parses gets exactly one
   archive write of the unmodified record, whatever becomes of the record
   afterwards (excluded, dropped, accepted); a blank line or a line that
   does not parse gets no write and leaves cleaned_data and has_mongo as
   they were. *)
C11_OneArchiveAttemptPerParsedLine ==
    [][ pos' = pos + 1 =>
          LET line == input[pos']
          IN  /\ (line.kind = "json" /\ has_mongo) =>
                    /\ Len(archive') = Len(archive) + 1
                    /\ SubSeq(archive', 1, Len(archive)) = archive
                    /\ archive'[Len(archive')].doc = line.val
              /\ line.kind \in {"blank", "malformed"} =>
                    /\ archive' = archive
                    /\ cleaned_data' = cleaned_data
                    /\ has_mongo' = has_mongo
      ]_vars

=============================================================================
